---- MODULE Spec2Model ----
(***************************************************************************)
(* A model of frontend/src/utils/wallet.ts: the AgentWallet (configuration *)
(* resolution, construction, the sticky primary/fallback selection, the    *)
(* backend proxies getBalance / sendSOL / signAndSendTransaction,          *)
(* initialize) and the ConnectionMonitor.                                  *)
(*                                                                         *)
(* Strings that the code inspects (RPC URLs, the API key) are sequences of *)
(* tokens: a scheme prefix, a host label, a slash, a blank.  Every string  *)
(* operation of the code (trim, the trailing-slash regex, startsWith, the  *)
(* URL parser) is an operator on such sequences.                           *)
(***************************************************************************)
EXTENDS Integers, Sequences, FiniteSets, TLC

\* ------------------------------------------------------------------ bounds
\* Longest URL string (in tokens) drawn for an environment variable.
MaxUrlLen == 2
\* Longest API key string (in tokens).
MaxKeyLen == 1

\* ----------------------------------------------------------------- strings
HTTP == "http://"
HTTPS == "https://"
SLASH == "/"
BLANK == " "
UrlAlphabet == {HTTP, HTTPS, "h", SLASH, BLANK}
KeyAlphabet == {"k"}

StringsOver(A, n) == UNION {[1..k -> A] : k \in 0..n}

\* String.prototype.trim: leading and trailing blanks removed.
RECURSIVE TrimLeft(_)
TrimLeft(s) == IF s # <<>> /\ Head(s) = BLANK THEN TrimLeft(Tail(s)) ELSE s

RECURSIVE TrimRight(_)
TrimRight(s) ==
  IF s # <<>> /\ s[Len(s)] = BLANK THEN TrimRight(SubSeq(s, 1, Len(s) - 1)) ELSE s

Trim(s) == TrimRight(TrimLeft(s))

\* url.replace(/\/+$/, ''): every slash of the trailing run of slashes removed.
RECURSIVE StripTrailingSlashes(_)
StripTrailingSlashes(s) ==
  IF s # <<>> /\ s[Len(s)] = SLASH
    THEN StripTrailingSlashes(SubSeq(s, 1, Len(s) - 1))
    ELSE s

StartsWithScheme(s) == s # <<>> /\ Head(s) \in {HTTP, HTTPS}

RECURSIVE DropLeadingSlashes(_)
DropLeadingSlashes(s) ==
  IF s # <<>> /\ Head(s) = SLASH THEN DropLeadingSlashes(Tail(s)) ELSE s

\* The host of an http(s) URL: the tokens up to the first slash; a scheme token
\* met there contributes its letters and ends the host at its colon.
RECURSIVE HostOf(_)
HostOf(s) ==
  IF s = <<>> \/ Head(s) = SLASH THEN <<>>
  ELSE IF Head(s) \in {HTTP, HTTPS} THEN <<Head(s)>>
  ELSE <<Head(s)>> \o HostOf(Tail(s))

\* new URL(url) does not throw: the parser drops the blanks around its input,
\* wants a scheme, skips the slashes after it, and rejects an empty host or a
\* host holding a blank.
UrlParses(url) ==
  LET input == Trim(url) IN
    /\ StartsWithScheme(input)
    /\ LET host == HostOf(DropLeadingSlashes(Tail(input))) IN
         /\ host # <<>>
         /\ \A i \in 1..Len(host) : host[i] # BLANK

\* validateAndFormatUrl: [ok, url]; ok = FALSE is the thrown
\* 'Invalid RPC URL format' error.
validateAndFormatUrl(url) ==
  LET stripped == StripTrailingSlashes(Trim(url))
      withScheme == IF StartsWithScheme(stripped) THEN stripped ELSE <<HTTPS>> \o stripped
  IN [ok |-> UrlParses(withScheme), url |-> withScheme]

\* ------------------------------------------------------------- environment
\* A process.env entry: unset, or a string.
Unset == [defined |-> FALSE, str |-> <<>>]
Str(s) == [defined |-> TRUE, str |-> s]
\* JavaScript truthiness of a string-or-undefined value.
Truthy(v) == v.defined /\ v.str # <<>>

EnvUrls == {Unset} \cup {Str(s) : s \in StringsOver(UrlAlphabet, MaxUrlLen)}
EnvKeys == {Unset} \cup {Str(s) : s \in StringsOver(KeyAlphabet, MaxKeyLen)}

\* NEXT_PUBLIC_QUICKNODE_RPC_URL, NEXT_PUBLIC_HELIUS_API_KEY,
\* NEXT_PUBLIC_FALLBACK_RPC_URL.
Envs == [quickNodeUrl : EnvUrls, heliusApiKey : EnvKeys, fallbackRpcUrl : EnvUrls]

\* ------------------------------------------------------- config resolution
NullConfig == [isNull |-> TRUE, url |-> <<>>, name |-> "none"]
RPCConfig(url, name) == [isNull |-> FALSE, url |-> url, name |-> name]

HeliusUrl(key) == <<HTTPS, "mainnet.helius-rpc.com", SLASH, "?api-key=">> \o key
PublicFallbackUrl == <<HTTPS, "api.mainnet-beta.solana.com">>

\* A faulty variant: the '|| hardcoded URL' alternative is lost.
DefaultUrl_NoHardcoded(e) == e.fallbackRpcUrl.str

\* The explicit fallback URL setting, or the hardcoded public endpoint.
DefaultUrl(e) == IF Truthy(e.fallbackRpcUrl) THEN e.fallbackRpcUrl.str ELSE PublicFallbackUrl

\* A faulty variant: the helius entry is always stored under 'fallback'.
initializeConfig_HeliusAlwaysFallback(e) ==
  LET q == IF Truthy(e.quickNodeUrl)
             THEN validateAndFormatUrl(e.quickNodeUrl.str)
             ELSE [ok |-> TRUE, url |-> <<>>]
      hasQ == Truthy(e.quickNodeUrl)
      hasH == Truthy(e.heliusApiKey)
      helius == RPCConfig(HeliusUrl(e.heliusApiKey.str), "helius")
      p1 == IF hasQ THEN RPCConfig(q.url, "quicknode") ELSE NullConfig
      f2 == IF hasH THEN helius ELSE NullConfig
      p3 == IF p1.isNull /\ f2.isNull THEN RPCConfig(DefaultUrl(e), "fallback") ELSE p1
  IN IF ~q.ok
       THEN [ok |-> FALSE, primary |-> NullConfig, fallback |-> NullConfig]
       ELSE [ok |-> TRUE, primary |-> p3, fallback |-> f2]

\* A faulty variant: the public default is never filled in.
initializeConfig_NoDefault(e) ==
  LET q == IF Truthy(e.quickNodeUrl)
             THEN validateAndFormatUrl(e.quickNodeUrl.str)
             ELSE [ok |-> TRUE, url |-> <<>>]
      hasQ == Truthy(e.quickNodeUrl)
      hasH == Truthy(e.heliusApiKey)
      helius == RPCConfig(HeliusUrl(e.heliusApiKey.str), "helius")
      p1 == IF hasQ THEN RPCConfig(q.url, "quicknode") ELSE NullConfig
      p2 == IF hasH /\ ~hasQ THEN helius ELSE p1
      f2 == IF hasH /\ hasQ THEN helius ELSE NullConfig
  IN IF ~q.ok
       THEN [ok |-> FALSE, primary |-> NullConfig, fallback |-> NullConfig]
       ELSE [ok |-> TRUE, primary |-> p2, fallback |-> f2]

\* initializeConfig: [ok, primary, fallback]; ok = FALSE is the error thrown by
\* validateAndFormatUrl on the primary-provider URL.
initializeConfig(e) ==
  LET q == IF Truthy(e.quickNodeUrl)
             THEN validateAndFormatUrl(e.quickNodeUrl.str)
             ELSE [ok |-> TRUE, url |-> <<>>]
      \* quickNodeUrl after line 74: the normalised URL, truthy iff it was set
      hasQ == Truthy(e.quickNodeUrl)
      hasH == Truthy(e.heliusApiKey)
      helius == RPCConfig(HeliusUrl(e.heliusApiKey.str), "helius")
      p1 == IF hasQ THEN RPCConfig(q.url, "quicknode") ELSE NullConfig
      p2 == IF hasH /\ ~hasQ THEN helius ELSE p1
      f2 == IF hasH /\ hasQ THEN helius ELSE NullConfig
      p3 == IF p2.isNull /\ f2.isNull THEN RPCConfig(DefaultUrl(e), "fallback") ELSE p2
  IN IF ~q.ok
       THEN [ok |-> FALSE, primary |-> NullConfig, fallback |-> NullConfig]
       ELSE [ok |-> TRUE, primary |-> p3, fallback |-> f2]

\* ------------------------------------------------------------ construction
NullConnection == [isNull |-> TRUE, endpoint |-> <<>>]
Connection(url) == [isNull |-> FALSE, endpoint |-> url]

\* createConnection: [ok, conn]; ok = FALSE is validateAndFormatUrl's error.
createConnection(url) ==
  LET v == validateAndFormatUrl(url) IN
    [ok |-> v.ok, conn |-> IF v.ok THEN Connection(v.url) ELSE NullConnection]

CtorFailure(err, cfg, resolved) ==
  [status |-> err, resolved |-> resolved, config |-> cfg,
   primaryConnection |-> NullConnection, fallbackConnection |-> NullConnection]

\* new AgentWallet(): status is "ok", or the error the constructor throws.
Constructor(e) ==
  LET resolved == initializeConfig(e)
      config == [primary |-> resolved.primary, fallback |-> resolved.fallback]
      pc == IF config.primary.isNull
              THEN [ok |-> TRUE, conn |-> NullConnection]
              ELSE createConnection(config.primary.url)
      fc == IF config.fallback.isNull
              THEN [ok |-> TRUE, conn |-> NullConnection]
              ELSE createConnection(config.fallback.url)
      primaryConn == IF ~config.fallback.isNull /\ config.primary.isNull
                       THEN fc.conn ELSE pc.conn
  IN IF ~resolved.ok THEN CtorFailure("InvalidUrl", config, FALSE)
     ELSE IF ~pc.ok THEN CtorFailure("InvalidUrl", config, TRUE)
     ELSE IF ~fc.ok THEN CtorFailure("InvalidUrl", config, TRUE)
     ELSE IF primaryConn.isNull /\ fc.conn.isNull
       THEN CtorFailure("NoRpcAvailable", config, TRUE)
     ELSE [status |-> "ok", resolved |-> TRUE, config |-> config,
           primaryConnection |-> primaryConn, fallbackConnection |-> fc.conn]

\* ------------------------------------------------------------------- state
\* Concurrent getActiveConnection / initialize calls the model follows.
MaxCalls == 2
Calls == 1..MaxCalls

VARIABLES
  env,                 \* process.env, read by the constructor
  ctorStatus,          \* "unconstructed", "ok", or the constructor's error
  configResolved,      \* initializeConfig returned (did not throw)
  config,              \* the ConnectionConfig initializeConfig returned
  primaryConnection,   \* AgentWallet.primaryConnection
  fallbackConnection,  \* AgentWallet.fallbackConnection
  isUsingFallback,     \* AgentWallet.isUsingFallback
  calls,               \* the getActiveConnection / initialize calls in flight
  op,                  \* the backend-proxy operation in flight
  errorCount,          \* ConnectionMonitor.errorCount
  lastLatency,         \* ConnectionMonitor.lastLatency
  monitorLog,          \* what the monitor's callers last observed
  validation,          \* the validateTransaction call in flight
  monitoring           \* the monitorTransaction call in flight

walletVars == <<env, ctorStatus, configResolved, config, primaryConnection,
                fallbackConnection, isUsingFallback>>
monitorVars == <<errorCount, lastLatency, monitorLog>>
validatorVars == <<validation, monitoring>>
vars == <<env, ctorStatus, configResolved, config, primaryConnection,
          fallbackConnection, isUsingFallback, calls, op, errorCount, lastLatency,
          monitorLog, validation, monitoring>>

IdleCall ==
  [caller |-> "none", pc |-> "idle", startedWithFallback |-> FALSE, probes |-> <<>>,
   returned |-> "none", error |-> "none", result |-> "none"]
IdleOp == [name |-> "none", pc |-> "idle"]
NoSnapshot == [isHealthy |-> FALSE, latency |-> 0, errorCount |-> 0]
\* What the monitor's callers have seen since construction or the last reset:
\* the ticks so far are unhealthy only ("run"), unhealthy then healthy only
\* ("recover"), or neither ("mixed"), with their numbers; the last operation,
\* the last shouldSwitchEndpoint answer and the last checkHealth snapshot.
FreshLog ==
  [phase |-> "run", unhealthy |-> 0, healthy |-> 0, last |-> "none",
   answer |-> FALSE, snapshot |-> NoSnapshot]

IdleValidation == [pc |-> "idle"]
IdleMonitoring == [pc |-> "idle"]

\* The environments the wallet operations are followed under: both providers,
\* the secondary only, the primary only, none, and a blank primary URL.
WalletEnvs ==
  {e \in Envs :
     /\ e.quickNodeUrl \in {Unset, Str(<<HTTPS, "h">>), Str(<<BLANK>>)}
     /\ e.heliusApiKey \in {Unset, Str(<<"k">>)}
     /\ e.fallbackRpcUrl = Unset}

InitWith(E) ==
  /\ env \in E
  /\ ctorStatus = "unconstructed"
  /\ configResolved = FALSE
  /\ config = [primary |-> NullConfig, fallback |-> NullConfig]
  /\ primaryConnection = NullConnection
  /\ fallbackConnection = NullConnection
  /\ isUsingFallback = FALSE
  /\ calls = [c \in Calls |-> IdleCall]
  /\ op = IdleOp
  /\ errorCount = 0
  /\ lastLatency = 0
  /\ monitorLog = FreshLog
  /\ validation = IdleValidation
  /\ monitoring = IdleMonitoring

Init == InitWith(WalletEnvs)
InitConfig == InitWith(Envs)

\* export const agentWallet = new AgentWallet()
Construct ==
  /\ ctorStatus = "unconstructed"
  /\ LET w == Constructor(env) IN
       /\ ctorStatus' = w.status
       /\ configResolved' = w.resolved
       /\ config' = w.config
       /\ primaryConnection' = w.primaryConnection
       /\ fallbackConnection' = w.fallbackConnection
  /\ UNCHANGED <<env, isUsingFallback, calls, op, monitorVars, validatorVars>>

SpecConfig == InitConfig /\ [][Construct]_vars

\* ---------------------------------------------------- getActiveConnection
Probe(target, ok) == [target |-> target, ok |-> ok]

\* A faulty variant: initialize takes a getActiveConnection that threw for a
\* success.
Finish_SwallowsError(call, returned, error) ==
  IF call.caller = "initialize"
    THEN IF returned # "none"
           THEN [call EXCEPT !.returned = returned, !.pc = "awaitSlot"]
           ELSE [call EXCEPT !.error = error, !.pc = "done", !.result = "true"]
    ELSE [call EXCEPT !.returned = returned, !.error = error, !.pc = "done"]

\* The call ends: a direct caller gets the handle or the error; initialize goes
\* on to its own getSlot on the handle, or catches the error and returns false.
Finish(call, returned, error) ==
  IF call.caller = "initialize"
    THEN IF returned # "none"
           THEN [call EXCEPT !.returned = returned, !.pc = "awaitSlot"]
           ELSE [call EXCEPT !.error = error, !.pc = "done", !.result = "false"]
    ELSE [call EXCEPT !.returned = returned, !.error = error, !.pc = "done"]

\* A faulty variant: a missing fallback handle is reported as 'No available RPC
\* connection'.
FallbackStage_SameError(call, fallbackConn) ==
  IF fallbackConn.isNull
    THEN Finish(call, "none", "No available RPC connection")
    ELSE [call EXCEPT !.pc = "awaitFallback"]

\* Lines 153-158: without a fallback handle the call throws; with one, the
\* fallback's getSlot is awaited.
FallbackStage(call, fallbackConn) ==
  IF fallbackConn.isNull
    THEN Finish(call, "none", "Fallback connection not initialized")
    ELSE [call EXCEPT !.pc = "awaitFallback"]

\* A faulty variant: the flag is not consulted, the primary is probed on every call.
EntersPrimaryBranch_Always(usingFallback) == TRUE

\* Line 140.
EntersPrimaryBranch(usingFallback) == ~usingFallback

\* A faulty variant: a failed primary probe flips the flag.
FlagAfterPrimaryFailure_Toggle(usingFallback) == ~usingFallback

\* Line 149.
FlagAfterPrimaryFailure(usingFallback) == TRUE

\* The call runs up to its first await (lines 140-145, or 140 and 153-158).
Begin(c, caller) ==
  /\ ctorStatus = "ok"
  /\ calls[c].pc = "idle"
  /\ LET call == [IdleCall EXCEPT !.caller = caller,
                                  !.startedWithFallback = isUsingFallback]
     IN IF EntersPrimaryBranch(isUsingFallback)
          THEN IF primaryConnection.isNull
                 THEN /\ isUsingFallback' = FlagAfterPrimaryFailure(isUsingFallback)
                      /\ calls' = [calls EXCEPT ![c] = FallbackStage(call, fallbackConnection)]
                 ELSE /\ isUsingFallback' = isUsingFallback
                      /\ calls' = [calls EXCEPT ![c] = [call EXCEPT !.pc = "awaitPrimary"]]
          ELSE /\ isUsingFallback' = isUsingFallback
               /\ calls' = [calls EXCEPT ![c] = FallbackStage(call, fallbackConnection)]
  /\ UNCHANGED <<env, ctorStatus, configResolved, config, primaryConnection,
                 fallbackConnection, op, monitorVars, validatorVars>>

GetActiveConnectionStart(c) == Begin(c, "direct")

\* primaryConnection.getSlot() settles (lines 145-150, then 153-158).
PrimaryProbeReturns(c, ok) ==
  /\ calls[c].pc = "awaitPrimary"
  /\ LET call == [calls[c] EXCEPT !.probes = Append(@, Probe("primary", ok))]
     IN IF ok
          THEN /\ calls' = [calls EXCEPT ![c] = Finish(call, "primary", "none")]
               /\ isUsingFallback' = isUsingFallback
          ELSE /\ isUsingFallback' = FlagAfterPrimaryFailure(isUsingFallback)
               /\ calls' = [calls EXCEPT ![c] = FallbackStage(call, fallbackConnection)]
  /\ UNCHANGED <<env, ctorStatus, configResolved, config, primaryConnection,
                 fallbackConnection, op, monitorVars, validatorVars>>

\* fallbackConnection.getSlot() settles (lines 158-163).
FallbackProbeReturns(c, ok) ==
  /\ calls[c].pc = "awaitFallback"
  /\ LET call == [calls[c] EXCEPT !.probes = Append(@, Probe("fallback", ok))]
     IN calls' = [calls EXCEPT ![c] =
          IF ok THEN Finish(call, "fallback", "none")
                ELSE Finish(call, "none", "No available RPC connection")]
  /\ UNCHANGED <<walletVars, op, monitorVars, validatorVars>>

\* -------------------------------------------------------------- initialize
InitializeStart(c) == Begin(c, "initialize")

\* A faulty variant: the slot fetch's failure is not caught as a failure.
InitializeResult_IgnoreSlot(ok) == "true"

\* Lines 268-270, or the catch block's return false.
InitializeResult(ok) == IF ok THEN "true" ELSE "false"

\* connection.getSlot() on the handle getActiveConnection returned settles.
InitializeSlotReturns(c, ok) ==
  /\ calls[c].pc = "awaitSlot"
  /\ calls' = [calls EXCEPT ![c] =
       [@ EXCEPT !.probes = Append(@, Probe("handle", ok)),
                 !.pc = "done",
                 !.result = InitializeResult(ok)]]
  /\ UNCHANGED <<walletVars, op, monitorVars, validatorVars>>

\* The caller has taken the call's outcome; the slot is free for a later call.
CallReturns(c) ==
  /\ calls[c].pc = "done"
  /\ calls' = [calls EXCEPT ![c] = IdleCall]
  /\ UNCHANGED <<walletVars, op, monitorVars, validatorVars>>

\* No operation is between its start and its caller taking its outcome.
Quiescent ==
  /\ \A c \in Calls : calls[c].pc = "idle"
  /\ op.pc = "idle"

\* ------------------------------------------------------ backend proxy data
maxRetries == 3
retryDelay == 2000

\* A string as the PublicKey constructor sees it: whether it is base58, and
\* the number of bytes it decodes to.
AddrString(b58, bytes) == [base58 |-> b58, bytes |-> bytes]
GoodAddress == AddrString(TRUE, 32)
Recipients == {GoodAddress, AddrString(TRUE, 31), AddrString(TRUE, 33), AddrString(FALSE, 0)}

\* isValidPublicKey: new PublicKey(address) does not throw.
isValidPublicKey(address) == address.base58 /\ address.bytes = 32

\* A JavaScript number: finite (an integer here), NaN, or an infinity.
Finite(n) == [kind |-> "finite", v |-> n]
NaN == [kind |-> "NaN", v |-> 0]
PlusInfinity == [kind |-> "Infinity", v |-> 0]
MinusInfinity == [kind |-> "-Infinity", v |-> 0]
Amounts == {Finite(n) : n \in {-5, 0, 1, 2}} \cup {NaN, PlusInfinity, MinusInfinity}

\* amount > 0 and Number.isFinite(amount), as JavaScript evaluates them.
GreaterThanZero(a) == (a.kind = "finite" /\ a.v > 0) \/ a.kind = "Infinity"
IsFinite(a) == a.kind = "finite"

\* A faulty variant: the Number.isFinite conjunct is missing.
isValidAmount_NoFiniteCheck(amount) == GreaterThanZero(amount)

isValidAmount(amount) == GreaterThanZero(amount) /\ IsFinite(amount)

\* The parsed body of a GET /api/wallet response.
BalanceData(truthy, balanceType, balance, addressType, address) ==
  [truthy |-> truthy, balanceType |-> balanceType, balance |-> balance,
   addressType |-> addressType, address |-> address]
NoData == BalanceData(FALSE, "undefined", 0, "undefined", AddrString(FALSE, 0))
BalancePayloads ==
  { BalanceData(TRUE, "number", 1, "string", GoodAddress),
    BalanceData(TRUE, "number", 2, "string", GoodAddress),
    BalanceData(TRUE, "string", 1, "string", GoodAddress),
    BalanceData(TRUE, "number", 1, "undefined", AddrString(FALSE, 0)),
    BalanceData(TRUE, "number", 1, "string", AddrString(TRUE, 31)),
    NoData }

isValidBalanceResponse(data) ==
  /\ data.truthy
  /\ data.balanceType = "number"
  /\ data.addressType = "string"
  /\ isValidPublicKey(data.address)

\* What one fetch of GET /api/wallet comes to: the fetch rejects, or a response
\* arrives with a status and a body that parses as JSON or does not.
GetResponse(arrived, status, parses, data) ==
  [arrived |-> arrived, status |-> status, parses |-> parses, data |-> data]
GetResponses ==
  {GetResponse(FALSE, 0, FALSE, NoData)}
    \cup {GetResponse(TRUE, st, FALSE, NoData) : st \in {200, 500}}
    \cup {GetResponse(TRUE, st, TRUE, d) : st \in {200, 500}, d \in BalancePayloads}

\* response.ok
StatusOk(status) == status >= 200 /\ status <= 299

HttpError(status) == <<"HTTP error! status", status>>
FetchFailed == <<"Failed to fetch", 0>>
JsonError == <<"Unexpected token in JSON", 0>>
InvalidFormat == <<"Invalid balance response format", 0>>
NoError == <<"none", 0>>

\* The error one attempt of getBalance throws (lines 171-184), NoError if it
\* returns.
AttemptError(resp) ==
  IF ~resp.arrived THEN FetchFailed
  ELSE IF ~StatusOk(resp.status) THEN HttpError(resp.status)
  ELSE IF ~resp.parses THEN JsonError
  ELSE IF ~isValidBalanceResponse(resp.data) THEN InvalidFormat
  ELSE NoError

\* -------------------------------------------------------------- getBalance
GetBalanceOp ==
  [name |-> "getBalance", pc |-> "awaitFetch", attempt |-> 1, lastError |-> NoError,
   errors |-> <<>>, delays |-> <<>>, gets |-> 1, posts |-> 0,
   response |-> GetResponse(FALSE, 0, FALSE, NoData),
   returned |-> NoData, thrown |-> NoError]

\* Line 169: attempt <= this.maxRetries.
LoopContinues(attempt) == attempt <= maxRetries

\* A faulty variant: the delay also follows the last attempt.
DelayFollows_Always(attempt) == attempt <= maxRetries

\* Line 191: attempt < this.maxRetries.
DelayFollows(attempt) == attempt < maxRetries

\* attempt++ and the loop test: the next fetch is issued, or the loop is left
\* and lastError thrown (line 197).
NextIteration(o) ==
  IF LoopContinues(o.attempt + 1)
    THEN [o EXCEPT !.attempt = @ + 1, !.gets = @ + 1, !.pc = "awaitFetch"]
    ELSE [o EXCEPT !.attempt = @ + 1, !.pc = "done", !.thrown = o.lastError]

GetBalanceStart ==
  /\ ctorStatus = "ok"
  /\ Quiescent
  /\ op' = GetBalanceOp
  /\ UNCHANGED <<walletVars, calls, monitorVars, validatorVars>>

\* The fetch of the current attempt settles.
GetBalanceAttemptReturns(resp) ==
  /\ op.name = "getBalance" /\ op.pc = "awaitFetch"
  /\ LET err == AttemptError(resp) IN
       IF err = NoError
         THEN op' = [op EXCEPT !.pc = "done", !.response = resp, !.returned = resp.data]
         ELSE LET failed == [op EXCEPT !.lastError = err, !.errors = Append(@, err),
                                       !.response = resp]
              IN IF DelayFollows(op.attempt)
                   THEN op' = [failed EXCEPT !.pc = "delay",
                                             !.delays = Append(@, retryDelay)]
                   ELSE op' = NextIteration(failed)
  /\ UNCHANGED <<walletVars, calls, monitorVars, validatorVars>>

\* The setTimeout of line 192 fires.
GetBalanceDelayElapses ==
  /\ op.name = "getBalance" /\ op.pc = "delay"
  /\ op' = NextIteration(op)
  /\ UNCHANGED <<walletVars, calls, monitorVars, validatorVars>>

\* ------------------------------------------- sendSOL, signAndSendTransaction
\* The parsed body of a POST response: null, or an object with an optional
\* error and an optional signature.
PostBody(isNull, error, signature) ==
  [isNull |-> isNull, error |-> error, signature |-> signature]
NoBody == PostBody(TRUE, Unset, Unset)
PostBodies ==
  { NoBody,
    PostBody(FALSE, Unset, Str(<<"sig">>)),
    PostBody(FALSE, Unset, Unset),
    PostBody(FALSE, Str(<<>>), Unset),
    PostBody(FALSE, Str(<<"insufficient funds">>), Unset),
    PostBody(FALSE, Str(<<"blockhash expired">>), Unset) }

PostResponse(arrived, status, parses, body) ==
  [arrived |-> arrived, status |-> status, parses |-> parses, body |-> body]
NoResponse == PostResponse(FALSE, 0, FALSE, NoBody)
PostResponses ==
  {NoResponse}
    \cup {PostResponse(TRUE, st, FALSE, NoBody) : st \in {200, 400}}
    \cup {PostResponse(TRUE, st, TRUE, b) : st \in {200, 400}, b \in PostBodies}

NoMessage == <<>>
\* 'Transaction failed' (line 224), 'Transaction signing failed' (line 249).
DefaultMessage(name) ==
  IF name = "sendSOL" THEN <<"Transaction failed">> ELSE <<"Transaction signing failed">>

\* The message of the error the call rethrows once the POST has settled
\* (lines 222-230, 247-257), NoMessage if it returns.
ThrownAfterPost(name, resp) ==
  IF ~resp.arrived THEN <<"Failed to fetch">>
  ELSE IF ~resp.parses THEN <<"Unexpected token in JSON">>
  ELSE IF ~StatusOk(resp.status)
    THEN IF resp.body.isNull THEN <<"Cannot read properties of null">>
         ELSE IF Truthy(resp.body.error) THEN resp.body.error.str
         ELSE DefaultMessage(name)
  ELSE IF resp.body.isNull /\ name = "signAndSendTransaction"
    THEN <<"Cannot read properties of null">>
  ELSE NoMessage

\* A faulty variant: a failed submission is posted again.
AfterPost_Retry(o, resp) ==
  IF ThrownAfterPost(o.name, resp) # NoMessage /\ o.posts < 2
    THEN [o EXCEPT !.posts = @ + 1]
    ELSE [o EXCEPT !.pc = "done", !.response = resp,
                   !.thrown = ThrownAfterPost(o.name, resp)]

\* The operation once its POST has settled: it throws, or returns the body
\* (sendSOL) or the body's signature (signAndSendTransaction).
AfterPost(o, resp) ==
  LET thrown == ThrownAfterPost(o.name, resp) IN
    [o EXCEPT !.pc = "done", !.response = resp, !.thrown = thrown,
              !.returned = IF thrown # NoMessage THEN NoBody
                           ELSE IF o.name = "sendSOL" THEN resp.body
                           ELSE PostBody(FALSE, Unset, resp.body.signature)]

\* Lines 218 and 243.
RpcLabel(usingFallback) == IF usingFallback THEN "helius" ELSE "quicknode"

PostOp(name) ==
  [name |-> name, pc |-> "done", recipient |-> GoodAddress, amount |-> Finite(0),
   serializes |-> TRUE, gets |-> 0, posts |-> 0, rpcUrl |-> "none",
   response |-> NoResponse, thrown |-> NoMessage, returned |-> NoBody]

\* sendSOL up to its await: the two validations, then the POST.
SendSOLStart(recipient, amount) ==
  /\ ctorStatus = "ok"
  /\ Quiescent
  /\ LET o == [PostOp("sendSOL") EXCEPT !.recipient = recipient, !.amount = amount] IN
       op' = IF ~isValidPublicKey(recipient)
               THEN [o EXCEPT !.thrown = <<"Invalid recipient address">>]
             ELSE IF ~isValidAmount(amount)
               THEN [o EXCEPT !.thrown = <<"Invalid amount">>]
             ELSE [o EXCEPT !.pc = "awaitPost", !.posts = 1,
                            !.rpcUrl = RpcLabel(isUsingFallback)]
  /\ UNCHANGED <<walletVars, calls, monitorVars, validatorVars>>

\* signAndSendTransaction up to its await: serialize (which may throw), then
\* the POST.
SignAndSendStart(serializes) ==
  /\ ctorStatus = "ok"
  /\ Quiescent
  /\ LET o == [PostOp("signAndSendTransaction") EXCEPT !.serializes = serializes] IN
       op' = IF ~serializes
               THEN [o EXCEPT !.thrown = <<"Transaction serialization failed">>]
               ELSE [o EXCEPT !.pc = "awaitPost", !.posts = 1,
                              !.rpcUrl = RpcLabel(isUsingFallback)]
  /\ UNCHANGED <<walletVars, calls, monitorVars, validatorVars>>

\* The POST of sendSOL or signAndSendTransaction settles.
PostReturns(resp) ==
  /\ op.name \in {"sendSOL", "signAndSendTransaction"} /\ op.pc = "awaitPost"
  /\ op' = AfterPost(op, resp)
  /\ UNCHANGED <<walletVars, calls, monitorVars, validatorVars>>

\* The caller has taken the outcome of the backend-proxy operation.
OpReturns ==
  /\ op.pc = "done"
  /\ op' = IdleOp
  /\ UNCHANGED <<walletVars, calls, monitorVars, validatorVars>>

\* ------------------------------------------------------ sequential wallet
\* The wallet's operations, one at a time: an operation starts only when no
\* other is between its start and its end.
Next ==
  \/ Construct
  \/ \E c \in Calls : Quiescent /\ GetActiveConnectionStart(c)
  \/ \E c \in Calls : Quiescent /\ InitializeStart(c)
  \/ \E c \in Calls, ok \in BOOLEAN : PrimaryProbeReturns(c, ok)
  \/ \E c \in Calls, ok \in BOOLEAN : FallbackProbeReturns(c, ok)
  \/ \E c \in Calls, ok \in BOOLEAN : InitializeSlotReturns(c, ok)
  \/ \E c \in Calls : CallReturns(c)
  \/ OpReturns
  \/ GetBalanceStart
  \/ \E resp \in GetResponses : GetBalanceAttemptReturns(resp)
  \/ GetBalanceDelayElapses
  \/ \E r \in Recipients, a \in Amounts : SendSOLStart(r, a)
  \/ \E s \in BOOLEAN : SignAndSendStart(s)
  \/ \E resp \in PostResponses : PostReturns(resp)

Spec == Init /\ [][Next]_vars

\* ------------------------------------------------------ interleaved calls
\* getActiveConnection and initialize calls started while others are
\* suspended at an await.
NextConc ==
  \/ Construct
  \/ \E c \in Calls : GetActiveConnectionStart(c)
  \/ \E c \in Calls : InitializeStart(c)
  \/ \E c \in Calls, ok \in BOOLEAN : PrimaryProbeReturns(c, ok)
  \/ \E c \in Calls, ok \in BOOLEAN : FallbackProbeReturns(c, ok)
  \/ \E c \in Calls, ok \in BOOLEAN : InitializeSlotReturns(c, ok)
  \/ \E c \in Calls : CallReturns(c)

SpecConc == Init /\ [][NextConc]_vars

\* ------------------------------------------------------ ConnectionMonitor
LATENCY_THRESHOLD == 1000
ERROR_THRESHOLD == 3
\* errorCount is followed up to this value.
MaxErrorCount == 5

\* performance.now() differences, in ms.
Latencies == {1, 999, 1000, 2500}
Max(a, b) == IF a >= b THEN a ELSE b
Min(a, b) == IF a <= b THEN a ELSE b

\* Line 422.
IsHealthy(latency) == latency < LATENCY_THRESHOLD

\* A faulty variant: the threshold must be exceeded.
shouldSwitchEndpoint_Strict(count) == count > ERROR_THRESHOLD

shouldSwitchEndpoint(count) == count >= ERROR_THRESHOLD

\* A faulty variant: the decrement has no floor.
CountAfterTick_NoFloor(count, healthy) == IF healthy THEN count - 1 ELSE count + 1

\* A faulty variant: the count stops at the threshold.
CountAfterTick_Capped(count, healthy) ==
  IF healthy THEN Max(0, count - 1) ELSE Min(count + 1, ERROR_THRESHOLD)

\* errorCount after a tick (lines 424-428, 436).
CountAfterTick(count, healthy) == IF healthy THEN Max(0, count - 1) ELSE count + 1

LogAfterTick(log, healthy, snapshot) ==
  [log EXCEPT
     !.phase = IF healthy
                 THEN (IF log.phase = "mixed" \/ log.unhealthy = 0 THEN "mixed" ELSE "recover")
                 ELSE (IF log.phase = "run" THEN "run" ELSE "mixed"),
     !.unhealthy = IF healthy THEN @ ELSE Min(@ + 1, MaxErrorCount),
     !.healthy = IF healthy THEN Min(@ + 1, MaxErrorCount) ELSE @,
     !.last = "checkHealth",
     !.snapshot = snapshot]

\* checkHealth when getSlot resolves after `latency` ms.
CheckHealthAnswered(latency) ==
  /\ IsHealthy(latency) \/ errorCount < MaxErrorCount
  /\ lastLatency' = latency
  /\ errorCount' = CountAfterTick(errorCount, IsHealthy(latency))
  /\ monitorLog' = LogAfterTick(monitorLog, IsHealthy(latency),
                                [isHealthy |-> IsHealthy(latency), latency |-> latency,
                                 errorCount |-> errorCount'])
  /\ UNCHANGED <<validatorVars, walletVars, calls, op>>

\* checkHealth when getSlot rejects.
CheckHealthFailed ==
  /\ errorCount < MaxErrorCount
  /\ errorCount' = CountAfterTick(errorCount, FALSE)
  /\ lastLatency' = lastLatency
  /\ monitorLog' = LogAfterTick(monitorLog, FALSE,
                                [isHealthy |-> FALSE, latency |-> lastLatency,
                                 errorCount |-> errorCount'])
  /\ UNCHANGED <<validatorVars, walletVars, calls, op>>

ShouldSwitchEndpoint ==
  /\ monitorLog' = [monitorLog EXCEPT !.last = "shouldSwitchEndpoint",
                                      !.answer = shouldSwitchEndpoint(errorCount)]
  /\ UNCHANGED <<validatorVars, walletVars, calls, op, errorCount, lastLatency>>

Reset ==
  /\ errorCount' = 0
  /\ lastLatency' = 0
  /\ monitorLog' = [FreshLog EXCEPT !.last = "reset"]
  /\ UNCHANGED <<validatorVars, walletVars, calls, op>>

NoEnv == [quickNodeUrl |-> Unset, heliusApiKey |-> Unset, fallbackRpcUrl |-> Unset]
InitMonitor == InitWith({NoEnv})

NextMonitor ==
  \/ \E latency \in Latencies : CheckHealthAnswered(latency)
  \/ CheckHealthFailed
  \/ ShouldSwitchEndpoint
  \/ Reset

SpecMonitor == InitMonitor /\ [][NextMonitor]_vars

\* --------------------------------------------------- TransactionValidator
\* DEFAULT_CONFIG: maxFee 0.1 SOL (held in tenths of a SOL), minConfirmations,
\* timeout in ms.
DefaultMaxFeeTenths == 1
DefaultMinConfirmations == 1
DefaultTimeout == 60000
\* 1e9 lamports to the SOL (line 363).
LamportsPerSol == 1000000000
\* The setTimeout of line 392, in ms.
PollInterval == 1000

\* A field of the Partial config: absent, or given.
Absent == [given |-> FALSE, v |-> 0]
Given(n) == [given |-> TRUE, v |-> n]

\* { ...DEFAULT_CONFIG, ...config } (lines 350 and 380).
FinalConfig(cfg) ==
  [maxFee |-> IF cfg.maxFee.given THEN cfg.maxFee.v ELSE DefaultMaxFeeTenths,
   minConfirmations |-> IF cfg.minConfirmations.given THEN cfg.minConfirmations.v
                                                      ELSE DefaultMinConfirmations,
   timeout |-> IF cfg.timeout.given THEN cfg.timeout.v ELSE DefaultTimeout]

ValidationConfigs ==
  [maxFee : {Absent, Given(0), Given(2)}, minConfirmations : {Absent}, timeout : {Absent}]

\* What getFeeForMessage comes to: it rejects, or resolves with a value that
\* is null or a number of lamports.
FeeRejected == [threw |-> TRUE, isNull |-> FALSE, value |-> 0]
FeeNull == [threw |-> FALSE, isNull |-> TRUE, value |-> 0]
Fee(n) == [threw |-> FALSE, isNull |-> FALSE, value |-> n]
FeeResults ==
  {FeeRejected, FeeNull} \cup {Fee(n) : n \in {0, 5000, 100000000, 100000001, 200000001}}

\* !fee.value (line 359): null and 0 are both falsy.
FeeValueFalsy(fee) == fee.isNull \/ fee.value = 0

\* fee.value / 1e9 > finalConfig.maxFee (line 363), maxFee in tenths of a SOL.
FeeTooHigh(fee, maxFeeTenths) == fee.value * 10 > maxFeeTenths * LamportsPerSol

\* The verdict of validateTransaction (lines 352-372).
Verdict(fee, maxFeeTenths) ==
  IF fee.threw THEN [isValid |-> FALSE, reason |-> "Failed to fetch"]
  ELSE IF FeeValueFalsy(fee) THEN [isValid |-> FALSE, reason |-> "Unable to estimate fee"]
  ELSE IF FeeTooHigh(fee, maxFeeTenths)
    THEN [isValid |-> FALSE, reason |-> "Transaction fee too high"]
  ELSE [isValid |-> TRUE, reason |-> "none"]

\* validateTransaction up to its await.
ValidateStart(cfg) ==
  /\ validation.pc = "idle"
  /\ validation' = [pc |-> "awaitFee", maxFee |-> FinalConfig(cfg).maxFee]
  /\ UNCHANGED <<walletVars, calls, op, monitorVars, monitoring>>

\* getFeeForMessage settles.
FeeReturns(fee) ==
  /\ validation.pc = "awaitFee"
  /\ validation' = [pc |-> "done", maxFee |-> validation.maxFee, fee |-> fee,
                    verdict |-> Verdict(fee, validation.maxFee)]
  /\ UNCHANGED <<walletVars, calls, op, monitorVars, monitoring>>

\* The caller has taken the verdict.
ValidateReturns ==
  /\ validation.pc = "done"
  /\ validation' = IdleValidation
  /\ UNCHANGED <<walletVars, calls, op, monitorVars, monitoring>>

\* The lookups of one monitorTransaction call are counted up to MaxPolls.
MaxPolls == 5

MonitoringConfigs ==
  [maxFee : {Absent},
   minConfirmations : {Absent, Given(0 - 1), Given(0), Given(2)},
   timeout : {Absent, Given(0 - 500), Given(0), Given(1000), Given(2000)}]

\* What getSignatureStatus comes to: it rejects (a transport error), or
\* resolves with a value that is null (unknown signature) or a status with
\* confirmations (a number or null) and a confirmationStatus.
StatusRejected ==
  [threw |-> TRUE, isNull |-> FALSE, hasCount |-> FALSE, confirmations |-> 0,
   confirmationStatus |-> "none"]
StatusNull ==
  [threw |-> FALSE, isNull |-> TRUE, hasCount |-> FALSE, confirmations |-> 0,
   confirmationStatus |-> "none"]
Counted(n, level) ==
  [threw |-> FALSE, isNull |-> FALSE, hasCount |-> TRUE, confirmations |-> n,
   confirmationStatus |-> level]
Rooted ==
  [threw |-> FALSE, isNull |-> FALSE, hasCount |-> FALSE, confirmations |-> 0,
   confirmationStatus |-> "finalized"]
StatusResults ==
  {StatusRejected, StatusNull, Rooted, Counted(0, "processed"), Counted(1, "confirmed"),
   Counted(2, "confirmed")}

\* How long a lookup takes, in ms.
LookupTimes == {0, 500}

\* status.value?.confirmations ?? 0 (line 388).
ConfirmationsOrZero(st) == IF st.isNull \/ ~st.hasCount THEN 0 ELSE st.confirmations

\* The condition of lines 387-388.
IsConfirmed(st, minConfirmations) ==
  \/ ~st.isNull /\ st.confirmationStatus = "finalized"
  \/ ConfirmationsOrZero(st) >= minConfirmations

\* What a lookup has shown: a status that is finalized, or that carries a
\* confirmation count of at least minConfirmations.
Observes(st, minConfirmations) ==
  /\ ~st.threw /\ ~st.isNull
  /\ \/ st.confirmationStatus = "finalized"
     \/ st.hasCount /\ st.confirmations >= minConfirmations

\* The loop condition of line 383: another lookup, or return false (line 398).
LoopHead(m) ==
  IF m.elapsed < m.timeout
    THEN [m EXCEPT !.pc = "awaitStatus", !.polls = Min(m.polls + 1, MaxPolls)]
    ELSE [m EXCEPT !.pc = "done", !.result = FALSE]

\* monitorTransaction up to its first await, or to its return.
MonitorStart(cfg) ==
  /\ monitoring.pc = "idle"
  /\ monitoring' = LoopHead([pc |-> "start", elapsed |-> 0,
                             timeout |-> FinalConfig(cfg).timeout,
                             minConfirmations |-> FinalConfig(cfg).minConfirmations,
                             polls |-> 0, undelayed |-> FALSE, observed |-> FALSE,
                             allNull |-> TRUE, result |-> FALSE])
  /\ UNCHANGED <<walletVars, calls, op, monitorVars, validation>>

\* getSignatureStatus settles after d ms: a rejection goes to the catch and
\* straight back to the loop condition; a confirmed status returns true;
\* anything else reaches the setTimeout.
StatusReturns(st, d) ==
  /\ monitoring.pc = "awaitStatus"
  /\ LET m == [monitoring EXCEPT !.elapsed = @ + d,
                                 !.observed = @ \/ Observes(st, monitoring.minConfirmations),
                                 !.allNull = @ /\ ~st.threw /\ st.isNull]
     IN monitoring' =
          IF st.threw
            THEN LET n == LoopHead(m)
                 IN [n EXCEPT !.undelayed = @ \/ n.pc = "awaitStatus"]
          ELSE IF IsConfirmed(st, m.minConfirmations)
            THEN [m EXCEPT !.pc = "done", !.result = TRUE]
          ELSE [m EXCEPT !.pc = "sleeping"]
  /\ UNCHANGED <<walletVars, calls, op, monitorVars, validation>>

\* The timer of line 392 fires.
SleepElapses ==
  /\ monitoring.pc = "sleeping"
  /\ monitoring' = LoopHead([monitoring EXCEPT !.elapsed = @ + PollInterval])
  /\ UNCHANGED <<walletVars, calls, op, monitorVars, validation>>

\* The caller has taken the answer.
MonitorReturns ==
  /\ monitoring.pc = "done"
  /\ monitoring' = IdleMonitoring
  /\ UNCHANGED <<walletVars, calls, op, monitorVars, validation>>

InitValidator == InitWith({NoEnv})

NextValidator ==
  \/ \E cfg \in ValidationConfigs : ValidateStart(cfg)
  \/ \E fee \in FeeResults : FeeReturns(fee)
  \/ ValidateReturns
  \/ \E cfg \in MonitoringConfigs : MonitorStart(cfg)
  \/ \E st \in StatusResults, d \in LookupTimes : StatusReturns(st, d)
  \/ SleepElapses
  \/ MonitorReturns

SpecValidator == InitValidator /\ [][NextValidator]_vars

\* ---------------------------------------------- claims: config resolution
Constructed == ctorStatus # "unconstructed"
HasPrimaryUrl == Truthy(env.quickNodeUrl)
HasSecondaryKey == Truthy(env.heliusApiKey)
HeliusEntry == RPCConfig(HeliusUrl(env.heliusApiKey.str), "helius")

\* C7: whenever config resolution returns and the secondary provider's key is
\* set, the secondary provider's endpoint is the fallback (and the primary
\* provider the primary) if a primary-provider URL is set, and it is the
\* primary, with a null fallback, if none is set.
C7_SecondaryPlacement ==
  (Constructed /\ configResolved /\ HasSecondaryKey) =>
    IF HasPrimaryUrl
      THEN /\ config.fallback = HeliusEntry
           /\ config.primary.name = "quicknode"
           /\ config.primary.url = validateAndFormatUrl(env.quickNodeUrl.str).url
      ELSE /\ config.primary = HeliusEntry
           /\ config.fallback.isNull

C7_Witness ==
  /\ ctorStatus = "ok" /\ HasSecondaryKey /\ ~HasPrimaryUrl
  /\ config.primary.name = "helius" /\ config.fallback.isNull
  /\ ~primaryConnection.isNull /\ fallbackConnection.isNull

\* C8 as stated: with neither provider configured the primary is the endpoint
\* named 'fallback' and construction succeeds, whatever the explicit
\* fallback-URL setting is.
C8_Original_NeverFails ==
  (Constructed /\ ~HasPrimaryUrl /\ ~HasSecondaryKey) =>
    /\ config.primary.name = "fallback"
    /\ ctorStatus = "ok"

\* C8 amended: with neither provider configured the primary is the endpoint
\* named 'fallback', whose URL is the explicit fallback-URL setting when that
\* is non-empty and the hardcoded public URL otherwise, and the fallback is
\* null; construction succeeds whenever the explicit setting is unset or
\* empty, and otherwise fails only with the invalid-URL error.
C8_DefaultEndpoint ==
  (Constructed /\ ~HasPrimaryUrl /\ ~HasSecondaryKey) =>
    /\ configResolved
    /\ config.primary.name = "fallback"
    /\ config.primary.url = (IF Truthy(env.fallbackRpcUrl)
                               THEN env.fallbackRpcUrl.str
                               ELSE <<HTTPS, "api.mainnet-beta.solana.com">>)
    /\ config.fallback.isNull
    /\ ctorStatus \in {"ok", "InvalidUrl"}
    /\ ~Truthy(env.fallbackRpcUrl) =>
         /\ ctorStatus = "ok"
         /\ primaryConnection = Connection(<<HTTPS, "api.mainnet-beta.solana.com">>)

C8_Witness ==
  /\ ctorStatus = "ok" /\ ~HasPrimaryUrl /\ ~HasSecondaryKey
  /\ ~Truthy(env.fallbackRpcUrl)
  /\ config.primary.name = "fallback"

\* C9: once config resolution has returned, primary and fallback are not both
\* null; after a successful construction primaryConnection and
\* fallbackConnection are not both null; and the constructor throws 'No RPC
\* connections available' exactly when resolution left both null.
C9_AtMostOneNull ==
  Constructed =>
    /\ configResolved => ~(config.primary.isNull /\ config.fallback.isNull)
    /\ ctorStatus = "ok" => ~(primaryConnection.isNull /\ fallbackConnection.isNull)
    /\ ctorStatus = "NoRpcAvailable"
         <=> (configResolved /\ config.primary.isNull /\ config.fallback.isNull)

C9_Witness ==
  /\ ctorStatus = "ok" /\ configResolved
  /\ ~config.primary.isNull /\ config.fallback.isNull
  /\ ~primaryConnection.isNull /\ fallbackConnection.isNull

\* ------------------------------------------- claims: getActiveConnection
\* The call probed the primary handle: in getActiveConnection, or through the
\* handle it returned to initialize.
ProbedPrimary(call) ==
  \E i \in 1..Len(call.probes) :
    \/ call.probes[i].target = "primary"
    \/ call.probes[i].target = "handle" /\ call.returned = "primary"

\* C1: isUsingFallback never goes from true to false, and a call that started
\* with isUsingFallback = true never probes the primary handle.
C1_StickyFallback ==
  [][ /\ isUsingFallback => isUsingFallback'
      /\ \A c \in Calls : calls'[c].startedWithFallback => ~ProbedPrimary(calls'[c])
    ]_vars

C1_Witness ==
  \E c \in Calls :
    /\ calls[c].caller = "direct" /\ calls[c].pc = "done"
    /\ calls[c].startedWithFallback
    /\ calls[c].probes = <<Probe("fallback", TRUE)>>
    /\ calls[c].returned = "fallback"

FirstProbe(call) == call.probes[1]
LastProbe(call) == call.probes[Len(call.probes)]

\* What C2 says of one finished getActiveConnection call, up to the error of a
\* call that returns no handle.
SelectionRule(call) ==
  /\ ~call.startedWithFallback =>
       /\ call.probes # <<>> /\ FirstProbe(call).target = "primary"
       /\ ~FirstProbe(call).ok =>
            /\ isUsingFallback
            /\ ~fallbackConnection.isNull =>
                 Len(call.probes) = 2 /\ call.probes[2].target = "fallback"
  /\ call.returned = "primary" <=>
       (~call.startedWithFallback /\ call.probes = <<Probe("primary", TRUE)>>)
  /\ call.returned = "fallback" <=>
       (call.probes # <<>> /\ LastProbe(call) = Probe("fallback", TRUE))
  /\ call.returned # "none" <=> call.error = "none"
  /\ \A i \in 1..Len(call.probes) :
       call.probes[i].target = "fallback" => ~fallbackConnection.isNull

FinishedDirectCalls == {c \in Calls : calls[c].caller = "direct" /\ calls[c].pc = "done"}

\* C2 as stated: the selection rule, and every call that returns no handle
\* fails with 'No available RPC connection'.
C2_Original_SelectionRule ==
  \A c \in FinishedDirectCalls :
    /\ SelectionRule(calls[c])
    /\ calls[c].returned = "none" => calls[c].error = "No available RPC connection"

\* C2 amended: the selection rule; a call that returns no handle fails with
\* 'No available RPC connection' when the fallback's probe failed, and with
\* 'Fallback connection not initialized', the fallback unprobed, when there is
\* no fallback handle.
C2_SelectionRule ==
  \A c \in FinishedDirectCalls :
    /\ SelectionRule(calls[c])
    /\ calls[c].returned = "none" =>
         IF fallbackConnection.isNull
           THEN /\ calls[c].error = "Fallback connection not initialized"
                /\ \A i \in 1..Len(calls[c].probes) : calls[c].probes[i].target = "primary"
           ELSE /\ calls[c].error = "No available RPC connection"
                /\ LastProbe(calls[c]) = Probe("fallback", FALSE)

C2_Witness ==
  \E c \in FinishedDirectCalls :
    /\ fallbackConnection.isNull
    /\ calls[c].probes = <<Probe("primary", FALSE)>>
    /\ calls[c].error = "Fallback connection not initialized"

\* ------------------------------------------------------ claims: getBalance
ValidShape(data) ==
  /\ data.truthy /\ data.balanceType = "number" /\ data.addressType = "string"
  /\ data.address.base58 /\ data.address.bytes = 32

Succeeds(resp) ==
  resp.arrived /\ resp.status \in 200..299 /\ resp.parses /\ ValidShape(resp.data)

\* C3: a getBalance call issues at most 3 GETs, one at a time; it returns the
\* payload of the first attempt that succeeds and then issues no further GET;
\* a rejected fetch, a non-OK status and an invalid shape are failed attempts;
\* after 3 failed attempts it throws the error of the 3rd, and exactly 2
\* delays of 2000 ms have occurred: one after each failed attempt but the last.
C3_BoundedRetry ==
  op.name = "getBalance" =>
    /\ op.gets <= 3
    /\ op.gets \in {Len(op.errors), Len(op.errors) + 1}
    /\ op.pc = "awaitFetch" =>
         /\ op.gets = Len(op.errors) + 1
         /\ op.delays = [i \in 1..Len(op.errors) |-> 2000]
    /\ op.pc = "delay" =>
         /\ op.gets = Len(op.errors) /\ op.gets < 3
         /\ ~Succeeds(op.response)
         /\ op.delays = [i \in 1..Len(op.errors) |-> 2000]
    /\ (op.pc = "done" /\ op.thrown = NoError) =>
         /\ Succeeds(op.response)
         /\ op.returned = op.response.data
         /\ op.gets = Len(op.errors) + 1
         /\ op.delays = [i \in 1..Len(op.errors) |-> 2000]
    /\ (op.pc = "done" /\ op.thrown # NoError) =>
         /\ ~Succeeds(op.response)
         /\ op.gets = 3 /\ Len(op.errors) = 3
         /\ op.thrown = op.errors[3]
         /\ op.delays = <<2000, 2000>>
    /\ op.pc = "done" => (op.thrown = NoError <=> op.returned # NoData)

C3_Witness ==
  /\ op.name = "getBalance" /\ op.pc = "done"
  /\ op.errors = <<FetchFailed, HttpError(500), InvalidFormat>>
  /\ op.thrown = InvalidFormat
  /\ op.delays = <<2000, 2000>>

\* --------------------------------------------- claims: sendSOL and signing
BadRecipient(o) == ~(o.recipient.base58 /\ o.recipient.bytes = 32)
BadAmount(o) == ~(o.amount.kind = "finite" /\ o.amount.v > 0)

\* C4: a sendSOL call whose recipient is not a valid public key, or whose
\* amount is not both > 0 and finite, throws the invalid-recipient or
\* invalid-amount error with no HTTP request issued, and leaves
\* isUsingFallback and both connection handles as they were.
C4_ValidationBeforeNetwork ==
  [][ (op'.name = "sendSOL" /\ (BadRecipient(op') \/ BadAmount(op'))) =>
        /\ op'.pc = "done"
        /\ op'.posts = 0 /\ op'.gets = 0
        /\ op'.thrown = (IF BadRecipient(op') THEN <<"Invalid recipient address">>
                                              ELSE <<"Invalid amount">>)
        /\ isUsingFallback' = isUsingFallback
        /\ primaryConnection' = primaryConnection
        /\ fallbackConnection' = fallbackConnection
    ]_vars

C4_Witness ==
  /\ op.name = "sendSOL" /\ op.pc = "done"
  /\ op.recipient = GoodAddress /\ op.amount = PlusInfinity
  /\ op.thrown = <<"Invalid amount">> /\ op.posts = 0
  /\ isUsingFallback

PostFailed(resp) == ~resp.arrived \/ resp.status \notin 200..299
ReportsError(resp) ==
  /\ resp.arrived /\ resp.status \notin 200..299 /\ resp.parses
  /\ ~resp.body.isNull /\ resp.body.error.defined /\ resp.body.error.str # <<>>

\* C5: a sendSOL or signAndSendTransaction call issues at most one POST; once
\* the POST has failed (rejected fetch or non-OK status) the call is over with
\* an error thrown to its caller, and when a non-OK response reports an error
\* message that message is the thrown error's.
C5_AtMostOnce ==
  op.name \in {"sendSOL", "signAndSendTransaction"} =>
    /\ op.posts <= 1 /\ op.gets = 0
    /\ op.pc = "awaitPost" => op.posts = 1
    /\ (op.pc = "done" /\ op.posts = 1) =>
         /\ PostFailed(op.response) => op.thrown # NoMessage
         /\ ReportsError(op.response) => op.thrown = op.response.body.error.str

C5_Witness ==
  /\ op.name = "signAndSendTransaction" /\ op.pc = "done" /\ op.posts = 1
  /\ op.response.status = 400
  /\ op.thrown = <<"blockhash expired">>

\* ------------------------------------------------------ claims: initialize
FinishedInitialize == {c \in Calls : calls[c].caller = "initialize" /\ calls[c].pc = "done"}

\* C6: a finished initialize call has returned a boolean: true iff
\* getActiveConnection returned a handle and the slot fetch on that handle
\* succeeded, false otherwise (no handle returned, or the slot fetch failed).
C6_InitializeBoolean ==
  /\ \A c \in Calls : calls[c].caller = "initialize" =>
       calls[c].pc \in {"awaitPrimary", "awaitFallback", "awaitSlot", "done"}
  /\ \A c \in FinishedInitialize :
       /\ calls[c].result \in {"true", "false"}
       /\ calls[c].result = "true" <=>
            /\ calls[c].returned # "none"
            /\ LastProbe(calls[c]) = Probe("handle", TRUE)
       /\ calls[c].returned = "none" =>
            calls[c].error \in {"No available RPC connection",
                                "Fallback connection not initialized"}

C6_Witness ==
  \E c \in FinishedInitialize :
    /\ calls[c].returned = "fallback"
    /\ calls[c].probes = <<Probe("primary", FALSE), Probe("fallback", TRUE),
                           Probe("handle", FALSE)>>
    /\ calls[c].result = "false"

\* ------------------------------------------------- claims: the monitor
\* C10: shouldSwitchEndpoint() answers errorCount >= 3 and changes neither
\* errorCount nor lastLatency; reset() sets both to 0; and when every
\* checkHealth tick since construction or the last reset was unhealthy,
\* the answer is false after 2 such ticks and true after 3.
C10_SwitchThreshold ==
  [][ /\ shouldSwitchEndpoint(errorCount') <=> errorCount' >= 3
      /\ (monitorLog'.last = "shouldSwitchEndpoint" /\ monitorLog' # monitorLog) =>
           /\ monitorLog'.answer = (errorCount >= 3)
           /\ errorCount' = errorCount /\ lastLatency' = lastLatency
      /\ monitorLog'.last = "reset" => errorCount' = 0 /\ lastLatency' = 0
      /\ (monitorLog'.phase = "run" /\ monitorLog'.unhealthy <= 2) =>
           ~shouldSwitchEndpoint(errorCount')
      /\ (monitorLog'.phase = "run" /\ monitorLog'.unhealthy = 3) =>
           shouldSwitchEndpoint(errorCount')
    ]_vars

C10_Witness ==
  /\ monitorLog.phase = "run" /\ monitorLog.unhealthy = 3
  /\ monitorLog.last = "shouldSwitchEndpoint" /\ monitorLog.answer = TRUE
  /\ errorCount = 3

\* A checkHealth call has just returned.
TickStep ==
  /\ monitorLog'.last = "checkHealth"
  /\ monitorLog' # monitorLog \/ errorCount' # errorCount \/ lastLatency' # lastLatency

\* C11: a checkHealth call returns a snapshot whose errorCount is the stored
\* count after the call; on a healthy tick (the probe answered in under
\* 1000 ms) the count becomes max(0, count - 1) and isHealthy is true; on an
\* unhealthy tick (answered in 1000 ms or more) or a transport failure (the
\* latency field left as it was) the count becomes count + 1 and isHealthy is
\* false; the count is never negative.
C11_CounterRule ==
  [][ /\ errorCount' >= 0
      /\ TickStep =>
           LET shot == monitorLog'.snapshot IN
             /\ shot.errorCount = errorCount'
             /\ shot.latency = lastLatency'
             /\ IF shot.isHealthy
                  THEN /\ shot.latency < 1000
                       /\ errorCount' = (IF errorCount >= 1 THEN errorCount - 1 ELSE 0)
                  ELSE /\ errorCount' = errorCount + 1
                       /\ shot.latency >= 1000 \/ lastLatency' = lastLatency
    ]_vars

C11_Witness ==
  /\ monitorLog.last = "checkHealth"
  /\ monitorLog.snapshot = [isHealthy |-> TRUE, latency |-> 999, errorCount |-> 0]
  /\ monitorLog.unhealthy = 0 /\ monitorLog.healthy = 2
  /\ errorCount = 0 /\ lastLatency = 999

\* C19: n consecutive unhealthy or failed ticks from a fresh or reset monitor
\* leave errorCount = n, whatever n; when only healthy ticks follow n >= 3 of
\* them, shouldSwitchEndpoint stays true while fewer than n - 2 healthy ticks
\* have occurred; no call but reset lowers errorCount by more than one; and a
\* tick turns the signal off only from errorCount = 3, by a healthy tick.
C19_Hysteresis ==
  [][ /\ monitorLog'.phase = "run" => errorCount' = monitorLog'.unhealthy
      /\ ( /\ monitorLog'.phase = "recover" /\ monitorLog'.unhealthy >= 3
           /\ monitorLog'.healthy < monitorLog'.unhealthy - 2 ) =>
           shouldSwitchEndpoint(errorCount')
      /\ monitorLog'.last # "reset" => errorCount' >= errorCount - 1
      /\ ( /\ monitorLog'.last # "reset"
           /\ shouldSwitchEndpoint(errorCount) /\ ~shouldSwitchEndpoint(errorCount') ) =>
           /\ errorCount = 3
           /\ monitorLog'.last = "checkHealth" /\ monitorLog'.snapshot.isHealthy
    ]_vars

C19_Witness ==
  /\ monitorLog.phase = "recover"
  /\ monitorLog.unhealthy = 5 /\ monitorLog.healthy = 2
  /\ errorCount = 3
  /\ monitorLog.last = "shouldSwitchEndpoint" /\ monitorLog.answer = TRUE

\* ------------------------------------------ claims: TransactionValidator

\* C14: validateTransaction returns isValid = false with a reason when the
\* fee lookup raises (the reason being the error text), when fee estimation
\* returns no value, and when the estimated fee divided by 10^9 exceeds
\* maxFee; it returns isValid = true for every other estimated fee f, f = 0
\* included.
C14_Verdict ==
  validation.pc = "done" =>
    LET fee == validation.fee
        v == validation.verdict
    IN /\ fee.threw => ~v.isValid /\ v.reason = "Failed to fetch"
       /\ (~fee.threw /\ fee.isNull) => ~v.isValid /\ v.reason # "none"
       /\ (~fee.threw /\ ~fee.isNull) =>
            /\ v.isValid = ~FeeTooHigh(fee, validation.maxFee)
            /\ ~v.isValid => v.reason # "none"

\* C12: monitorTransaction returns true iff some lookup made while the
\* elapsed time was below the timeout showed confirmationStatus 'finalized'
\* or a confirmation count >= minConfirmations; it returns on the first such
\* lookup; and it returns false only once the timeout has elapsed.
C12_Outcome ==
  /\ monitoring.pc \in {"awaitStatus", "sleeping"} => ~monitoring.observed
  /\ monitoring.pc = "done" =>
       /\ monitoring.result = monitoring.observed
       /\ ~monitoring.result => monitoring.elapsed >= monitoring.timeout

\* C13: within one call a 1-second delay separates any two consecutive status
\* lookups, also after a lookup that failed with a transport error, so that
\* one call makes at most timeout / 1000 + 1 lookups.
C13_PollingRate ==
  monitoring.pc # "idle" =>
    /\ ~monitoring.undelayed
    /\ monitoring.polls <= Max(monitoring.timeout, 0) \div PollInterval + 1

\* C18: a call in which every lookup returned a null status returns false,
\* whatever minConfirmations and the timeout; and a call with a timeout <= 0
\* returns false without a lookup.
C18_FoundOnly ==
  monitoring.pc = "done" =>
    /\ monitoring.allNull => ~monitoring.result
    /\ monitoring.timeout <= 0 => monitoring.polls = 0 /\ ~monitoring.result

\* ------------------------------------------- claims: the fallback flag

\* The provider named by the configuration entry of the handle that
\* getActiveConnection turns to in this state.
SelectedProvider ==
  IF isUsingFallback THEN config.fallback.name ELSE config.primary.name

\* C17: a sendSOL or signAndSendTransaction call probes no endpoint and
\* leaves isUsingFallback alone; the rpcUrl of its request body is 'helius'
\* iff isUsingFallback is true at the call and 'quicknode' otherwise; and that
\* label names the provider of the handle getActiveConnection would select
\* in that state, whatever the configuration.
C17_EndpointLabel ==
  [][ (op.pc = "idle" /\ op'.name \in {"sendSOL", "signAndSendTransaction"}) =>
        /\ isUsingFallback' = isUsingFallback
        /\ calls' = calls
        /\ op'.posts = 1 =>
             /\ op'.rpcUrl = "helius" <=> isUsingFallback
             /\ op'.rpcUrl = "quicknode" <=> ~isUsingFallback
             /\ op'.rpcUrl = SelectedProvider
    ]_vars

\* C16: on an instance without a fallback handle, once isUsingFallback is
\* true it stays true, and every getActiveConnection call started from then
\* on fails at once without a probe, every initialize call started from then
\* on returns false without a probe.
C16_NoRecovery ==
  [][ (fallbackConnection.isNull /\ isUsingFallback) =>
        /\ isUsingFallback' /\ fallbackConnection'.isNull
        /\ \A c \in Calls :
             (calls[c].pc = "idle" /\ calls'[c].pc # "idle") =>
               /\ calls'[c].pc = "done"
               /\ calls'[c].probes = <<>>
               /\ calls'[c].returned = "none"
               /\ calls'[c].error = "Fallback connection not initialized"
               /\ calls'[c].caller = "initialize" => calls'[c].result = "false"
    ]_vars

C16_Witness ==
  \E c \in Calls :
    /\ fallbackConnection.isNull /\ ~primaryConnection.isNull /\ isUsingFallback
    /\ calls[c].caller = "initialize" /\ calls[c].pc = "done"
    /\ calls[c].startedWithFallback
    /\ calls[c].probes = <<>>
    /\ calls[c].result = "false"

\* C15 as stated: under interleaved calls isUsingFallback never goes from
\* true to false, and no call completes by returning the primary handle at a
\* moment when isUsingFallback is already true.
C15_Original_Interleaved ==
  [][ /\ isUsingFallback => isUsingFallback'
      /\ \A c \in Calls :
           (calls[c].returned # "primary" /\ calls'[c].returned = "primary") =>
             ~isUsingFallback
    ]_vars

\* C15 amended: under interleaved calls isUsingFallback never goes from true
\* to false; a call that started with the flag true never probes the primary;
\* and a call returns the primary handle only when it started with the flag
\* false and its own primary probe succeeded.
C15_Interleaved ==
  [][ /\ isUsingFallback => isUsingFallback'
      /\ \A c \in Calls :
           /\ calls'[c].startedWithFallback => ~ProbedPrimary(calls'[c])
           /\ calls'[c].returned = "primary" =>
                /\ ~calls'[c].startedWithFallback
                /\ FirstProbe(calls'[c]) = Probe("primary", TRUE)
    ]_vars

\* A call has returned the primary handle while isUsingFallback is true: another
\* call's primary probe failed while this one was awaiting its own.
C15_Witness ==
  \E c \in Calls :
    /\ isUsingFallback
    /\ calls[c].caller = "direct" /\ calls[c].pc = "done"
    /\ calls[c].returned = "primary"
    /\ calls[c].probes = <<Probe("primary", TRUE)>>

====
